---------------------------- MODULE Spec2Model ----------------------------
(***************************************************************************)
(* Model of the Integrated Maize Advisory System (src/project.py).         *)
(*                                                                         *)
(* Strings whose letter case the program inspects (levels, risks, classes) *)
(* are sequences of one-character strings, so that str.lower() is an       *)
(* operator on characters and an exact comparison (==) differs from a      *)
(* comparison after lower().  Region, zone and month names are only ever   *)
(* compared exactly and are plain strings.  A raised exception is the      *)
(* record [exc |-> <type>]; a returned value is [val |-> <value>].         *)
(***************************************************************************)
EXTENDS Integers, Sequences, FiniteSets, TLC

VARIABLES
    maize_df,      \* self.maize_df   : sequence of variety rows
    state_df,      \* self.state_df   : sequence of [state, agro_zone]
    climate_df,    \* self.climate_df : sequence of [state, month, avg_rainfall_mm]
    soil_df,       \* self.soil_df    : sequence of [state, soil_level]
    months_order,  \* self.months_order
    pc,            \* position of the running call ("idle" between calls)
    call,          \* the running (or last) call: [fn, args]
    frame,         \* local variables of the running generate_report call
    ret,           \* outcome of the last finished call
    trace,         \* stages executed so far by the running generate_report call
    out,           \* sections printed so far by the running generate_report call
    seen,          \* finished calls of the session, by kind: sets of [args, ret]
    ncalls         \* number of calls started in the session

vars == <<maize_df, state_df, climate_df, soil_df, months_order,
          pc, call, frame, ret, trace, out, seen, ncalls>>

tables == <<maize_df, state_df, climate_df, soil_df, months_order>>

-----------------------------------------------------------------------------
(* Strings and str.lower()                                                 *)

UpperLetters == <<"A","B","C","D","E","F","G","H","I","J","K","L","M",
                  "N","O","P","Q","R","S","T","U","V","W","X","Y","Z">>
LowerLetters == <<"a","b","c","d","e","f","g","h","i","j","k","l","m",
                  "n","o","p","q","r","s","t","u","v","w","x","y","z">>

IsUpper(c) == \E i \in DOMAIN UpperLetters : UpperLetters[i] = c
IsLower(c) == \E i \in DOMAIN LowerLetters : LowerLetters[i] = c

LowerChar(c) ==
    IF IsUpper(c)
    THEN LowerLetters[CHOOSE i \in DOMAIN UpperLetters : UpperLetters[i] = c]
    ELSE c

UpperChar(c) ==
    IF IsLower(c)
    THEN UpperLetters[CHOOSE i \in DOMAIN LowerLetters : LowerLetters[i] = c]
    ELSE c

\* str.lower()
lower(s) == [i \in 1..Len(s) |-> LowerChar(s[i])]

\* every spelling of s that differs from it in letter case only
RECURSIVE CaseVariants(_)
CaseVariants(s) ==
    IF s = <<>> THEN {<<>>}
    ELSE {<<c>> \o t : c \in {LowerChar(s[1]), UpperChar(s[1])},
                       t \in CaseVariants(Tail(s))}

sHigh    == <<"H","i","g","h">>
sMedium  == <<"M","e","d","i","u","m">>
sLow     == <<"L","o","w">>
sUnknown == <<"U","n","k","n","o","w","n">>
sVeryHigh == <<"V","e","r","y"," ","H","i","g","h">>

lc_high   == <<"h","i","g","h">>
lc_medium == <<"m","e","d","i","u","m">>
lc_low    == <<"l","o","w">>

\* no call of the session has finished
EmptySeen == [report |-> {}, validate |-> {}, select |-> {}, classify |-> {}]

Val(v) == [val |-> v]
Exc(e) == [exc |-> e]
IsExc(r) == "exc" \in DOMAIN r
IsVal(r) == "val" \in DOMAIN r

-----------------------------------------------------------------------------
(* Climate classifier                                                      *)

MonthsInYear == 12
WindowLen    == 3
LowBelow     == 100
MediumBelow  == 200

MonthNames == <<"January", "February", "March", "April", "May", "June",
                "July", "August", "September", "October", "November", "December">>

\* an absent element given the position past the end instead of an error
list_index_silent(l, x) ==
    IF \E i \in 1..Len(l) : l[i] = x
    THEN Val((CHOOSE i \in 1..Len(l) :
                 l[i] = x /\ \A j \in 1..(i-1) : l[j] # x) - 1)
    ELSE Val(Len(l))

\* list.index(x): 0-based position of the first occurrence; ValueError if absent
list_index(l, x) ==
    IF \E i \in 1..Len(l) : l[i] = x
    THEN Val((CHOOSE i \in 1..Len(l) :
                 l[i] = x /\ \A j \in 1..(i-1) : l[j] # x) - 1)
    ELSE Exc("ValueError")

\* the window stopping at the end of the list instead of wrapping
window_months_nowrap(mo, start_idx) ==
    [k \in 1..WindowLen |->
        mo[(IF start_idx + (k-1) < MonthsInYear
            THEN start_idx + (k-1) ELSE MonthsInYear - 1) + 1]]

\* [months_order[(start_idx + i) % 12] for i in range(3)]
window_months(mo, start_idx) ==
    [k \in 1..WindowLen |-> mo[((start_idx + (k-1)) % MonthsInYear) + 1]]

InSeq(x, s) == \E i \in 1..Len(s) : s[i] = x

\* climate_df[(state == ..) & (month.isin(months))]["avg_rainfall_mm"].sum()
RECURSIVE rainfall_sum(_,_,_)
rainfall_sum(df, state, months) ==
    IF df = <<>> THEN 0
    ELSE (IF df[1].state = state /\ InSeq(df[1].month, months)
          THEN df[1].avg_rainfall_mm ELSE 0)
         + rainfall_sum(Tail(df), state, months)

classify_sum(s) ==
    IF s < LowBelow THEN sLow
    ELSE IF s < MediumBelow THEN sMedium
    ELSE sHigh

climate_class_from_rainfall(df, state, planting_month, mo) ==
    LET start_idx == list_index(mo, planting_month) IN
    IF IsExc(start_idx) THEN start_idx
    ELSE Val(classify_sum(rainfall_sum(df, state, window_months(mo, start_idx.val))))

-----------------------------------------------------------------------------
(* Risk mappers and recommendation generators                              *)

\* the class compared as given, without lower()
drought_risk_from_climate_exact(climate_class) ==
    IF climate_class = sLow THEN <<sHigh, "Frequent irrigation required">>
    ELSE IF climate_class = sMedium THEN <<sMedium, "Moderate irrigation recommended">>
    ELSE IF climate_class = sHigh THEN <<sLow, "Irrigation usually not required">>
    ELSE <<sUnknown, "Unknown">>

drought_risk_from_climate(climate_class) ==
    LET c == lower(climate_class) IN
    IF c = lc_low THEN <<sHigh, "Frequent irrigation required">>
    ELSE IF c = lc_medium THEN <<sMedium, "Moderate irrigation recommended">>
    ELSE IF c = lc_high THEN <<sLow, "Irrigation usually not required">>
    ELSE <<sUnknown, "Unknown">>

soil_fertility_risk(soil_level) ==
    LET s == lower(soil_level) IN
    IF s = lc_low THEN sHigh
    ELSE IF s = lc_medium THEN sMedium
    ELSE IF s = lc_high THEN sLow
    ELSE sUnknown

recommend_fertilizer(soil_level) ==
    LET s == lower(soil_level) IN
    IF s = lc_low THEN [N |-> 120, P2O5 |-> 60, K2O |-> 60, notes |-> "Basal NPK 15-15-15 at 400 kg/ha + Urea top-dress"]
    ELSE IF s = lc_medium THEN [N |-> 60, P2O5 |-> 30, K2O |-> 30, notes |-> "NPK 15-15-15 at moderate levels required"]
    ELSE IF s = lc_high THEN [N |-> 30, P2O5 |-> 0, K2O |-> 0, notes |-> "Minimal fertilizer (only urea) input required."]
    ELSE [N |-> 0, P2O5 |-> 0, K2O |-> 0, notes |-> "No recommendation"]

\* the Medium test placed before the High test
pest_disease_risk_medium_first(drought_risk, soil_risk) ==
    IF drought_risk = sMedium \/ soil_risk = sMedium THEN sMedium
    ELSE IF drought_risk = sHigh \/ soil_risk = sHigh THEN sHigh
    ELSE sLow

pest_disease_risk(drought_risk, soil_risk) ==
    IF drought_risk = sHigh \/ soil_risk = sHigh THEN sHigh
    ELSE IF drought_risk = sMedium \/ soil_risk = sMedium THEN sMedium
    ELSE sLow

pest_disease_recommendation(risk_level) ==
    LET r == lower(risk_level) IN
    IF r = lc_high THEN "Intensive monitoring and timely pesticide application recommended."
    ELSE IF r = lc_medium THEN "Regular monitoring with targeted interventions if needed."
    ELSE "Routine monitoring sufficient."

color_risk(risk) ==
    LET r == lower(risk) IN
    IF r = lc_high THEN "red High"
    ELSE IF r = lc_medium THEN "yellow Medium"
    ELSE IF r = lc_low THEN "green Low"
    ELSE "Unknown"

-----------------------------------------------------------------------------
(* MaizeAdvisorySystem.validate_soil_level                                 *)

\* soil_df[soil_df["state"] == state]["soil_level"].str.lower().tolist()
RECURSIVE available_levels(_,_)
available_levels(df, state) ==
    IF df = <<>> THEN <<>>
    ELSE (IF df[1].state = state THEN <<lower(df[1].soil_level)>> ELSE <<>>)
         \o available_levels(Tail(df), state)

\* the requested level looked up as given, without lower()
validate_soil_level_exact(df, state, soil_level) ==
    IF ~InSeq(soil_level, available_levels(df, state))
    THEN Exc("ValueError")
    ELSE Val("None")

\* the check made by the first call of a session only
validate_soil_level_once(df, state, soil_level) ==
    IF seen # EmptySeen THEN Val("None")
    ELSE IF ~InSeq(lower(soil_level), available_levels(df, state))
    THEN Exc("ValueError")
    ELSE Val("None")

validate_soil_level(df, state, soil_level) ==
    IF ~InSeq(lower(soil_level), available_levels(df, state))
    THEN Exc("ValueError")
    ELSE Val("None")

-----------------------------------------------------------------------------
(* MaizeAdvisorySystem.recommend_varieties                                 *)
(* A data frame view is the sequence of the index labels (row positions of *)
(* the catalog) it keeps, in order.                                        *)

TopN == 3

RowLabels(df) == [i \in 1..Len(df) |-> i]

\* the zone test left out
zone_filter_any(df, agro_zone) == RowLabels(df)

\* maize_df[maize_df["adaptation_zone"] == agro_zone]
zone_filter(df, agro_zone) ==
    SelectSeq(RowLabels(df), LAMBDA i : df[i].adaptation_zone = agro_zone)

\* the Medium branch keeping "medium" only
tolerance_filter_medium_only(df, view, col, risk) ==
    IF risk = sHigh
    THEN SelectSeq(view, LAMBDA i : lower(df[i][col]) = lc_high)
    ELSE IF risk = sMedium
    THEN SelectSeq(view, LAMBDA i : lower(df[i][col]) = lc_medium)
    ELSE view

\* the tolerance filter applied to column col for a risk level
tolerance_filter(df, view, col, risk) ==
    IF risk = sHigh
    THEN SelectSeq(view, LAMBDA i : lower(df[i][col]) = lc_high)
    ELSE IF risk = sMedium
    THEN SelectSeq(view, LAMBDA i : lower(df[i][col]) \in {lc_medium, lc_high})
    ELSE view

\* the rows that survive the three filters, in catalog order
filtered(df, agro_zone, drought_risk, soil_risk) ==
    tolerance_filter(df,
        tolerance_filter(df, zone_filter(df, agro_zone),
                         "drought_tolerance", drought_risk),
        "low_n_tolerance", soil_risk)

\* df.sort_values("yield_potential", ascending=False): position k of the
\* result holds the row with k-1 rows before it; rows of equal yield keep
\* their order (numpy sorts arrays this small by insertion).
sort_values_desc(df, view) ==
    LET before(a, b) == \/ df[view[a]].yield_potential > df[view[b]].yield_potential
                        \/ /\ df[view[a]].yield_potential = df[view[b]].yield_potential
                           /\ a < b
        rank(b) == 1 + Cardinality({a \in 1..Len(view) : before(a, b)})
    IN [k \in 1..Len(view) |-> view[CHOOSE b \in 1..Len(view) : rank(b) = k]]

\* the ranked view returned whole
head_all(view) == view

\* .head(3)
head(view) == SubSeq(view, 1, IF Len(view) < TopN THEN Len(view) ELSE TopN)

recommend_varieties(df, agro_zone, drought_risk, soil_risk) ==
    head(sort_values_desc(df, filtered(df, agro_zone, drought_risk, soil_risk)))

-----------------------------------------------------------------------------
(* Sessions.  A call is [fn, args]; its outcome is put in ret.             *)

BoundedSeq(S, n) == UNION {[1..k -> S] : k \in 0..n}

NoRet == [pending |-> TRUE]

EmptyFrame ==
    [agro_zone |-> "", climate_class |-> <<>>, drought_risk |-> <<>>,
     irrigation_note |-> "", soil_risk |-> <<>>, pest_risk |-> <<>>,
     pest_note |-> "",
     fertilizer |-> [N |-> 0, P2O5 |-> 0, K2O |-> 0, notes |-> ""],
     sel_args |-> <<>>, varieties |-> <<>>]

NoTables ==
    /\ maize_df = <<>>
    /\ state_df = <<>>
    /\ climate_df = <<>>
    /\ soil_df = <<>>
    /\ months_order = MonthNames

\* a single call, drawn by Init, waits to be applied
OneCall(c) ==
    /\ call = c
    /\ pc = "ready"
    /\ ret = NoRet
    /\ frame = EmptyFrame
    /\ trace = <<>>
    /\ out = <<>>
    /\ seen = EmptySeen
    /\ ncalls = 0

Finish(r) ==
    /\ pc = "ready"
    /\ pc' = "done"
    /\ ret' = r
    /\ UNCHANGED <<tables, call, frame, trace, out, seen, ncalls>>

-----------------------------------------------------------------------------
(* SpecRisk: the three risk mappers applied to one drawn input             *)

RiskLevels == {sLow, sMedium, sHigh, sUnknown}

LevelInputs ==
    CaseVariants(lc_low) \cup CaseVariants(lc_high)
    \cup {sMedium, lc_medium, <<"M","E","D","I","U","M">>, <<"m","E","d","i","u","m">>}
    \cup {sUnknown, sVeryHigh, <<>>}

InitRisk ==
    /\ NoTables
    /\ \E c \in [fn : {"drought_risk_from_climate", "soil_fertility_risk"},
                 args : {<<x>> : x \in LevelInputs}]
              \cup [fn : {"pest_disease_risk"}, args : LevelInputs \X LevelInputs] :
          OneCall(c)

DroughtRiskCall ==
    /\ call.fn = "drought_risk_from_climate"
    /\ Finish(Val(drought_risk_from_climate(call.args[1])[1]))

SoilRiskCall ==
    /\ call.fn = "soil_fertility_risk"
    /\ Finish(Val(soil_fertility_risk(call.args[1])))

PestRiskCall ==
    /\ call.fn = "pest_disease_risk"
    /\ Finish(Val(pest_disease_risk(call.args[1], call.args[2])))

NextRisk == DroughtRiskCall \/ SoilRiskCall \/ PestRiskCall

SpecRisk == InitRisk /\ [][NextRisk]_vars

\* two strings that differ at most in the case of their letters
EqIgnoreCase(s, t) ==
    /\ Len(s) = Len(t)
    /\ \A i \in 1..Len(s) :
          \/ s[i] = t[i]
          \/ \E k \in DOMAIN UpperLetters :
                \/ s[i] = UpperLetters[k] /\ t[i] = LowerLetters[k]
                \/ s[i] = LowerLetters[k] /\ t[i] = UpperLetters[k]

RiskMapper(fn, args) ==
    CASE fn = "drought_risk_from_climate" -> drought_risk_from_climate(args[1])[1]
      [] fn = "soil_fertility_risk"       -> soil_fertility_risk(args[1])
      [] fn = "pest_disease_risk"         -> pest_disease_risk(args[1], args[2])

\* the drawn inputs that differ from args in letter case only
Respellings(args) ==
    IF Len(args) = 1
    THEN {<<x>> : x \in {y \in LevelInputs : EqIgnoreCase(y, args[1])}}
    ELSE {y \in LevelInputs : EqIgnoreCase(y, args[1])}
         \X {y \in LevelInputs : EqIgnoreCase(y, args[2])}

\* C6: for every pair (drought_risk, soil_risk) of {Low, Medium, High, Unknown},
\* pest_disease_risk returns High if either input is High, otherwise Medium if
\* either is Medium, otherwise Low; (High, Unknown) gives High, (Medium, Unknown)
\* gives Medium, (Unknown, Unknown) gives Low, and the result is never Unknown.
C6_PestRiskTable ==
    (/\ pc = "done"
     /\ call.fn = "pest_disease_risk"
     /\ call.args[1] \in RiskLevels
     /\ call.args[2] \in RiskLevels)
    => LET d == call.args[1]
           s == call.args[2]
       IN /\ ret = Val(IF sHigh \in {d, s} THEN sHigh
                       ELSE IF sMedium \in {d, s} THEN sMedium
                       ELSE sLow)
          /\ ret.val # sUnknown
          /\ (d = sHigh /\ s = sUnknown => ret.val = sHigh)
          /\ (d = sMedium /\ s = sUnknown => ret.val = sMedium)
          /\ (d = sUnknown /\ s = sUnknown => ret.val = sLow)

C6_Witness ==
    /\ pc = "done"
    /\ call.fn = "pest_disease_risk"
    /\ call.args = <<sMedium, sHigh>>
    /\ ret = Val(sHigh)

\* C7 as stated: for each of the three risk mappers, changing only the letter
\* case of an input never changes the returned risk level.
C7_AllMappersCaseInsensitive ==
    pc = "done" =>
        \A a \in Respellings(call.args) : RiskMapper(call.fn, a) = ret.val

\* C7 amended: drought_risk_from_climate and soil_fertility_risk return the
\* same risk for every respelling of their input; pest_disease_risk compares
\* its inputs exactly: it returns High iff an input is spelled "High",
\* Medium iff none is and an input is spelled "Medium", and Low otherwise.
C7_DroughtSoilCaseInsensitive ==
    pc = "done" =>
        /\ call.fn \in {"drought_risk_from_climate", "soil_fertility_risk"} =>
              \A a \in Respellings(call.args) : RiskMapper(call.fn, a) = ret.val
        /\ call.fn = "pest_disease_risk" =>
              LET d == call.args[1]
                  s == call.args[2]
              IN /\ ret.val = sHigh <=> sHigh \in {d, s}
                 /\ ret.val = sMedium <=> (sHigh \notin {d, s} /\ sMedium \in {d, s})
                 /\ ret.val \in {sHigh, sMedium, sLow}

C7_Witness ==
    /\ pc = "done"
    /\ call.fn = "drought_risk_from_climate"
    /\ call.args = << <<"L","O","W">> >>
    /\ ret = Val(sHigh)

-----------------------------------------------------------------------------
(* SpecClimate: climate_class_from_rainfall on a drawn climate table       *)

MaxClimateRows == 3

ClimateRows ==
    [state : {"Kaduna", "Kano"},
     month : {"November", "December", "January", "February"},
     avg_rainfall_mm : {60, 100}]

MonthInputs == {MonthNames[i] : i \in DOMAIN MonthNames} \cup {"july", "Smarch"}

InitClimate ==
    /\ maize_df = <<>>
    /\ state_df = <<>>
    /\ soil_df = <<>>
    /\ months_order = MonthNames
    /\ climate_df \in BoundedSeq(ClimateRows, MaxClimateRows)
    /\ \E c \in [fn : {"climate_class_from_rainfall"},
                 args : {"Kaduna"} \X MonthInputs] : OneCall(c)

ClassifyCall ==
    /\ call.fn = "climate_class_from_rainfall"
    /\ Finish(climate_class_from_rainfall(climate_df, call.args[1],
                                          call.args[2], months_order))

NextClimate == ClassifyCall

SpecClimate == InitClimate /\ [][NextClimate]_vars

\* the calendar month that follows each month, December followed by January
MonthAfter ==
    [January |-> "February", February |-> "March", March |-> "April",
     April |-> "May", May |-> "June", June |-> "July", July |-> "August",
     August |-> "September", September |-> "October", October |-> "November",
     November |-> "December", December |-> "January"]

CalendarWindow(m) == {m, MonthAfter[m], MonthAfter[MonthAfter[m]]}

\* the rows of the climate table a (region, planting month) query counts
MatchingRows(df, state, m) ==
    {i \in 1..Len(df) : df[i].state = state /\ df[i].month \in CalendarWindow(m)}

RECURSIVE RainOver(_,_)
RainOver(df, I) ==
    IF I = {} THEN 0
    ELSE LET i == CHOOSE j \in I : TRUE
         IN df[i].avg_rainfall_mm + RainOver(df, I \ {i})

\* C1: for a planting month among the 12 calendar month names,
\* climate_class_from_rainfall returns Low if S < 100, Medium if 100 <= S < 200
\* and High if S >= 200, S being the sum of avg_rainfall_mm over all rows
\* (duplicates included, in any order) of the region whose month is one of the
\* 3 consecutive months from the planting month, wrapping past December
\* (November -> November, December, January); with no matching row the
\* result is Low.
C1_ClassifyThresholds ==
    (/\ pc = "done"
     /\ call.fn = "climate_class_from_rainfall"
     /\ call.args[2] \in DOMAIN MonthAfter)
    => LET I == MatchingRows(climate_df, call.args[1], call.args[2])
           S == RainOver(climate_df, I)
       IN /\ S < 100 => ret = Val(sLow)
          /\ (100 <= S /\ S < 200) => ret = Val(sMedium)
          /\ S >= 200 => ret = Val(sHigh)
          /\ I = {} => ret = Val(sLow)

C1_Witness ==
    /\ pc = "done"
    /\ call = [fn |-> "climate_class_from_rainfall", args |-> <<"Kaduna", "November">>]
    /\ Len(climate_df) = 3
    /\ climate_df[1] = [state |-> "Kaduna", month |-> "January", avg_rainfall_mm |-> 100]
    /\ climate_df[2] = [state |-> "Kaduna", month |-> "November", avg_rainfall_mm |-> 60]
    /\ climate_df[3] = climate_df[2]
    /\ ret = Val(sHigh)

-----------------------------------------------------------------------------
(* SpecSelect: recommend_varieties on a drawn catalog                      *)

MaxCatalogRows == 4

NGS == "Northern Guinea Savanna"
SS  == "Sudan Savanna"

Variety(z, d, n, y) ==
    [adaptation_zone |-> z, drought_tolerance |-> d, low_n_tolerance |-> n,
     yield_potential |-> y]

\* Varieties of the test fixture (V1, V2, V3) and variations of them:
\* other tolerance pairs, other yields, other spellings, another zone.
VarietyRows ==
    { Variety(NGS, sHigh, sHigh, 6),
      Variety(NGS, sMedium, sMedium, 5),
      Variety(NGS, sHigh, sHigh, 7),
      Variety(NGS, sMedium, sHigh, 8),
      Variety(NGS, sHigh, sLow, 8),
      Variety(NGS, sLow, sLow, 9),
      Variety(NGS, lc_high, <<"H","I","G","H">>, 6),
      Variety(SS, sHigh, sHigh, 9) }

SelectQueries ==
    ({NGS} \X RiskLevels \X RiskLevels)
    \cup {<<SS, sHigh, sHigh>>, <<SS, sLow, sUnknown>>}

InitSelect ==
    /\ state_df = <<>>
    /\ climate_df = <<>>
    /\ soil_df = <<>>
    /\ months_order = MonthNames
    /\ maize_df \in BoundedSeq(VarietyRows, MaxCatalogRows)
    /\ \E c \in [fn : {"recommend_varieties"}, args : SelectQueries] : OneCall(c)

RecommendCall ==
    /\ call.fn = "recommend_varieties"
    /\ Finish(Val(recommend_varieties(maize_df, call.args[1],
                                      call.args[2], call.args[3])))

NextSelect == RecommendCall

SpecSelect == InitSelect /\ [][NextSelect]_vars

\* a catalog tolerance read as a level: its spelling, letter case ignored
IsLevel(tol, level) == EqIgnoreCase(tol, level)

\* what a risk level asks of the matching tolerance
Tolerates(tol, risk) ==
    /\ risk = sHigh => IsLevel(tol, sHigh)
    /\ risk = sMedium => (IsLevel(tol, sMedium) \/ IsLevel(tol, sHigh))

\* the rows of the catalog that pass the three filters
Survivors(df, zone, dr, sr) ==
    {i \in 1..Len(df) : /\ df[i].adaptation_zone = zone
                        /\ Tolerates(df[i].drought_tolerance, dr)
                        /\ Tolerates(df[i].low_n_tolerance, sr)}

Elems(q) == {q[k] : k \in 1..Len(q)}

SelectDone == pc = "done" /\ call.fn = "recommend_varieties"

\* C3: every record returned by recommend_varieties has adaptation_zone exactly
\* equal to the zone, drought tolerance High when drought_risk = High and Medium
\* or High when it is Medium, and low-nitrogen tolerance likewise for soil_risk
\* (a tolerance being the level its spelling denotes); a Low or Unknown risk
\* filters nothing, so as many survivors are returned as fit in 3; and no
\* survivor left out has a strictly greater yield_potential than a returned one.
C3_SelectFilters ==
    SelectDone =>
        LET zone == call.args[1]
            dr   == call.args[2]
            sr   == call.args[3]
            R    == Elems(ret.val)
            S    == Survivors(maize_df, zone, dr, sr)
        IN /\ \A i \in R :
                 /\ i \in 1..Len(maize_df)
                 /\ maize_df[i].adaptation_zone = zone
                 /\ dr = sHigh => IsLevel(maize_df[i].drought_tolerance, sHigh)
                 /\ dr = sMedium =>
                       \/ IsLevel(maize_df[i].drought_tolerance, sMedium)
                       \/ IsLevel(maize_df[i].drought_tolerance, sHigh)
                 /\ sr = sHigh => IsLevel(maize_df[i].low_n_tolerance, sHigh)
                 /\ sr = sMedium =>
                       \/ IsLevel(maize_df[i].low_n_tolerance, sMedium)
                       \/ IsLevel(maize_df[i].low_n_tolerance, sHigh)
           /\ Cardinality(R) = Len(ret.val)
           /\ Cardinality(R) = (IF Cardinality(S) < 3 THEN Cardinality(S) ELSE 3)
           /\ \A i \in S \ R : \A j \in R :
                 ~(maize_df[i].yield_potential > maize_df[j].yield_potential)

\* drought_risk = Unknown and soil_risk = Low filter nothing: a Low/Low variety
\* of the zone is returned, ahead of a differently spelled high/HIGH one
C3_Witness ==
    /\ SelectDone
    /\ call.args = <<NGS, sUnknown, sLow>>
    /\ Len(maize_df) = 4
    /\ maize_df[1] = Variety(SS, sHigh, sHigh, 9)
    /\ maize_df[2] = Variety(NGS, lc_high, <<"H","I","G","H">>, 6)
    /\ maize_df[3] = Variety(NGS, sLow, sLow, 9)
    /\ maize_df[4] = Variety(NGS, sMedium, sMedium, 5)
    /\ ret = Val(<<3, 2, 4>>)

\* C4: recommend_varieties never returns more than 3 records, the returned
\* sequence is sorted by yield_potential in descending order, and when no
\* record survives filtering it returns an empty sequence, not an error.
C4_AtMostThreeSortedDescending ==
    SelectDone =>
        /\ IsVal(ret)
        /\ Len(ret.val) <= 3
        /\ \A k \in 1..Len(ret.val) : \A l \in (k+1)..Len(ret.val) :
              maize_df[ret.val[k]].yield_potential
                  >= maize_df[ret.val[l]].yield_potential
        /\ Survivors(maize_df, call.args[1], call.args[2], call.args[3]) = {}
              => ret = Val(<<>>)

\* four survivors of different yields, the lowest one cut off
C4_Witness ==
    /\ SelectDone
    /\ call.args = <<NGS, sMedium, sLow>>
    /\ Cardinality(Survivors(maize_df, NGS, sMedium, sLow)) = 4
    /\ Len(ret.val) = 3
    /\ maize_df[ret.val[1]].yield_potential > maize_df[ret.val[2]].yield_potential
    /\ maize_df[ret.val[2]].yield_potential > maize_df[ret.val[3]].yield_potential

\* C5 as stated: the result set returned for drought_risk = High is always a
\* subset of the result set returned for drought_risk = Medium with the same
\* zone and soil_risk.
C5_HighResultSubsetOfMedium ==
    (SelectDone /\ call.args[2] = sHigh) =>
        Elems(ret.val) \subseteq
            Elems(recommend_varieties(maize_df, call.args[1], sMedium, call.args[3]))

\* C5 amended: every record returned for drought_risk = High passes the
\* filters of drought_risk = Medium (same zone and soil_risk), and it is in the
\* Medium result unless that result already holds 3 records of no smaller
\* yield_potential; so the High result is a subset of the Medium result
\* whenever at most 3 records survive the Medium filtering.
C5_HighNarrowsMedium ==
    (SelectDone /\ call.args[2] = sHigh) =>
        LET zone == call.args[1]
            sr   == call.args[3]
            M    == recommend_varieties(maize_df, zone, sMedium, sr)
            SM   == Survivors(maize_df, zone, sMedium, sr)
        IN /\ Elems(ret.val) \subseteq SM
           /\ \A i \in Elems(ret.val) :
                 \/ i \in Elems(M)
                 \/ /\ Len(M) = 3
                    /\ \A k \in 1..3 : maize_df[M[k]].yield_potential
                                           >= maize_df[i].yield_potential
           /\ Cardinality(SM) <= 3 => Elems(ret.val) \subseteq Elems(M)

\* three High-tolerance varieties returned, one of which a better-yielding
\* Medium-tolerance variety pushes out of the Medium result
C5_Witness ==
    /\ SelectDone
    /\ call.args = <<NGS, sHigh, sHigh>>
    /\ Len(ret.val) = 3
    /\ \E i \in Elems(ret.val) :
          i \notin Elems(recommend_varieties(maize_df, NGS, sMedium, sHigh))

-----------------------------------------------------------------------------
(* SpecSoil: validate_soil_level on a drawn soil table                     *)

MaxSoilRows == 3

SoilRows ==
    [state : {"Kaduna", "Kano"},
     soil_level : {sLow, lc_low, sMedium, sHigh, <<"H","I","G","H">>, sVeryHigh}]

SoilQueries ==
    {"Kaduna", "Jos"}
    \X {sLow, <<"L","O","W">>, lc_high, sHigh, sMedium, sVeryHigh, sUnknown, <<>>}

InitSoil ==
    /\ maize_df = <<>>
    /\ state_df = <<>>
    /\ climate_df = <<>>
    /\ months_order = MonthNames
    /\ soil_df \in BoundedSeq(SoilRows, MaxSoilRows)
    /\ \E c \in [fn : {"validate_soil_level"}, args : SoilQueries] : OneCall(c)

ValidateCall ==
    /\ call.fn = "validate_soil_level"
    /\ Finish(validate_soil_level(soil_df, call.args[1], call.args[2]))

NextSoil == ValidateCall

SpecSoil == InitSoil /\ [][NextSoil]_vars

\* a row of the soil table for the region whose level is the requested one,
\* letter case ignored
LevelOffered(df, state, level) ==
    \E i \in 1..Len(df) :
        df[i].state = state /\ EqIgnoreCase(df[i].soil_level, level)

\* C2: validate_soil_level fails with ValueError if and only if no row of the
\* soil table for the region has a soil_level equal to the requested one
\* compared case-insensitively; every level present in the region's rows, in
\* any letter case, is accepted without error.
C2_ValidateSoilLevel ==
    (pc = "done" /\ call.fn = "validate_soil_level") =>
        /\ ret = Exc("ValueError")
              <=> ~LevelOffered(soil_df, call.args[1], call.args[2])
        /\ LevelOffered(soil_df, call.args[1], call.args[2]) => ret = Val("None")

\* "LOW" requested where the region's rows spell it "low"
C2_Witness ==
    /\ pc = "done"
    /\ call = [fn |-> "validate_soil_level", args |-> <<"Kaduna", <<"L","O","W">> >>]
    /\ Len(soil_df) = 2
    /\ soil_df[1] = [state |-> "Kano", soil_level |-> sHigh]
    /\ soil_df[2] = [state |-> "Kaduna", soil_level |-> lc_low]
    /\ ret = Val("None")

-----------------------------------------------------------------------------
(* Spec: a session of one MaizeAdvisorySystem.  generate_report runs stage *)
(* by stage; the other calls are single steps.                             *)

MaxCalls == 2

\* the variety selection moved ahead of the risk mappers
Stages_selector_early ==
    <<"validate", "zone", "climate", "varieties", "drought", "soil", "pest",
      "pest_note", "fertilizer", "output">>

\* the statements of generate_report, in program order
Stages ==
    <<"validate", "zone", "climate", "drought", "soil", "pest",
      "pest_note", "fertilizer", "varieties", "output">>

\* the stage control reaches after stage s; "idle" after the last one
StageAfter(s) ==
    LET k == CHOOSE i \in 1..Len(Stages) : Stages[i] = s
    IN IF k < Len(Stages) THEN Stages[k + 1] ELSE "idle"

\* state_df[state_df["state"] == state]["agro_zone"].iloc[0]
RECURSIVE zone_lookup(_,_)
zone_lookup(df, state) ==
    IF df = <<>> THEN Exc("IndexError")
    ELSE IF df[1].state = state THEN Val(df[1].agro_zone)
    ELSE zone_lookup(Tail(df), state)

\* what the report prints from the locals of a call
report_output(c, f) ==
    << <<"summary", c.args[1], f.agro_zone, c.args[2], c.args[3], f.climate_class>>,
       <<"risks", color_risk(f.drought_risk), color_risk(f.soil_risk),
                  color_risk(f.pest_risk)>>,
       <<"fertilizer", f.fertilizer>>,
       <<"irrigation", f.irrigation_note>>,
       <<"pest", f.pest_note>>,
       <<"varieties",
         IF f.varieties = <<>>
         THEN "No suitable varieties found for the selected conditions."
         ELSE "table",
         [k \in 1..Len(f.varieties) |-> maize_df[f.varieties[k]]]>> >>

FixtureClimate ==
    << [state |-> "Kaduna", month |-> "July", avg_rainfall_mm |-> 40],
       [state |-> "Kaduna", month |-> "August", avg_rainfall_mm |-> 50],
       [state |-> "Kaduna", month |-> "September", avg_rainfall_mm |-> 60],
       [state |-> "Kano", month |-> "January", avg_rainfall_mm |-> 120],
       [state |-> "Kano", month |-> "November", avg_rainfall_mm |-> 100] >>

FixtureSoil ==
    << [state |-> "Kaduna", soil_level |-> sLow],
       [state |-> "Kaduna", soil_level |-> sMedium],
       [state |-> "Kaduna", soil_level |-> sHigh],
       [state |-> "Kano", soil_level |-> lc_low],
       [state |-> "Jos", soil_level |-> sHigh] >>

FixtureStates ==
    << [state |-> "Kaduna", agro_zone |-> NGS],
       [state |-> "Kano", agro_zone |-> SS] >>

FixtureMaize ==
    << Variety(NGS, sHigh, sHigh, 6),
       Variety(NGS, sMedium, sMedium, 5),
       Variety(NGS, sHigh, sHigh, 7),
       Variety(NGS, sLow, sHigh, 4) >>

SessionCatalogs ==
    { FixtureMaize,
      FixtureMaize \o << Variety(NGS, lc_high, sHigh, 8), Variety(SS, sLow, sLow, 9) >> }

ReportArgs ==
    {"Kaduna", "Kano", "Jos"} \X {"July", "November", "Smarch"}
    \X {sLow, lc_high, sVeryHigh}

ValidateArgs == {"Kaduna", "Kano"} \X {sLow, lc_high, sVeryHigh}

RecommendArgs == {NGS} \X {sHigh, sMedium, sUnknown} \X {sHigh, sMedium, sLow}

ClassifyArgs == {"Kaduna", "Kano"} \X {"July", "November", "Smarch"}

Init ==
    /\ maize_df \in SessionCatalogs
    /\ state_df = FixtureStates
    /\ climate_df = FixtureClimate
    /\ soil_df = FixtureSoil
    /\ months_order = MonthNames
    /\ pc = "idle"
    /\ call = [fn |-> "none", args |-> <<>>]
    /\ ret = NoRet
    /\ frame = EmptyFrame
    /\ trace = <<>>
    /\ out = <<>>
    /\ seen = EmptySeen
    /\ ncalls = 0

\* a call made and finished in one step
Direct(kind, c, r) ==
    /\ pc = "idle"
    /\ ncalls < MaxCalls
    /\ ncalls' = ncalls + 1
    /\ call' = c
    /\ ret' = r
    /\ seen' = [seen EXCEPT ![kind] = @ \cup {[args |-> c.args, ret |-> r]}]
    /\ UNCHANGED <<tables, pc, frame, trace, out>>

ValidateSoilLevel ==
    \E a \in ValidateArgs :
        Direct("validate", [fn |-> "validate_soil_level", args |-> a],
               validate_soil_level(soil_df, a[1], a[2]))

RecommendVarieties ==
    \E a \in RecommendArgs :
        Direct("select", [fn |-> "recommend_varieties", args |-> a],
               Val(recommend_varieties(maize_df, a[1], a[2], a[3])))

ClimateClassFromRainfall ==
    \E a \in ClassifyArgs :
        Direct("classify", [fn |-> "climate_class_from_rainfall", args |-> a],
               climate_class_from_rainfall(climate_df, a[1], a[2], months_order))

\* generate_report is entered: fresh locals, nothing printed yet
GenerateReport ==
    \E a \in ReportArgs :
        /\ pc = "idle"
        /\ ncalls < MaxCalls
        /\ ncalls' = ncalls + 1
        /\ call' = [fn |-> "generate_report", args |-> a]
        /\ pc' = Stages[1]
        /\ frame' = EmptyFrame
        /\ ret' = NoRet
        /\ trace' = <<>>
        /\ out' = <<>>
        /\ UNCHANGED <<tables, seen>>

\* generate_report ends with outcome r, having printed o
Return(r, o) ==
    /\ pc' = "idle"
    /\ ret' = r
    /\ seen' = [seen EXCEPT !.report =
                   @ \cup {[args |-> call.args, ret |-> r, out |-> o]}]

\* stage s is executed: f are the locals after it, r its outcome
Stage(s, f, r) ==
    /\ pc = s
    /\ trace' = Append(trace, s)
    /\ frame' = f
    /\ IF IsExc(r)
       THEN Return(r, out) /\ out' = out
       ELSE IF StageAfter(s) = "idle"
       THEN Return(Val("None"), r.val) /\ out' = r.val
       ELSE pc' = StageAfter(s) /\ UNCHANGED <<ret, seen, out>>
    /\ UNCHANGED <<tables, call, ncalls>>

StageValidate ==
    Stage("validate", frame,
          validate_soil_level(soil_df, call.args[1], call.args[3]))

StageZone ==
    LET z == zone_lookup(state_df, call.args[1])
    IN Stage("zone",
             IF IsExc(z) THEN frame ELSE [frame EXCEPT !.agro_zone = z.val], z)

StageClimate ==
    LET c == climate_class_from_rainfall(climate_df, call.args[1],
                                         call.args[2], months_order)
    IN Stage("climate",
             IF IsExc(c) THEN frame ELSE [frame EXCEPT !.climate_class = c.val], c)

StageDrought ==
    LET d == drought_risk_from_climate(frame.climate_class)
    IN Stage("drought",
             [frame EXCEPT !.drought_risk = d[1], !.irrigation_note = d[2]],
             Val(out))

StageSoil ==
    Stage("soil",
          [frame EXCEPT !.soil_risk = soil_fertility_risk(call.args[3])],
          Val(out))

StagePest ==
    Stage("pest",
          [frame EXCEPT !.pest_risk =
               pest_disease_risk(frame.drought_risk, frame.soil_risk)],
          Val(out))

StagePestNote ==
    Stage("pest_note",
          [frame EXCEPT !.pest_note = pest_disease_recommendation(frame.pest_risk)],
          Val(out))

StageFertilizer ==
    Stage("fertilizer",
          [frame EXCEPT !.fertilizer = recommend_fertilizer(call.args[3])],
          Val(out))

StageVarieties ==
    Stage("varieties",
          [frame EXCEPT
              !.sel_args = <<frame.agro_zone, frame.drought_risk, frame.soil_risk>>,
              !.varieties = recommend_varieties(maize_df, frame.agro_zone,
                                frame.drought_risk, frame.soil_risk)],
          Val(out))

StageOutput ==
    Stage("output", frame, Val(report_output(call, frame)))

Next ==
    \/ ValidateSoilLevel
    \/ RecommendVarieties
    \/ ClimateClassFromRainfall
    \/ GenerateReport
    \/ StageValidate
    \/ StageZone
    \/ StageClimate
    \/ StageDrought
    \/ StageSoil
    \/ StagePest
    \/ StagePestNote
    \/ StageFertilizer
    \/ StageVarieties
    \/ StageOutput

Spec == Init /\ [][Next]_vars

ReportCall == call.fn = "generate_report"

Ran(s) == \E k \in 1..Len(trace) : trace[k] = s
Pos(s) == CHOOSE k \in 1..Len(trace) : trace[k] = s

\* stage a has run, and before stage b, whenever stage b has run
Precedes(a, b) == Ran(b) => (Ran(a) /\ Pos(a) < Pos(b))

UnknownMonth(m) == \A i \in DOMAIN MonthNames : MonthNames[i] # m

\* the region is in the soil table with the requested level and in the
\* region table
PassesLookups(a) ==
    /\ LevelOffered(soil_df, a[1], a[3])
    /\ \E i \in 1..Len(state_df) : state_df[i].state = a[1]

\* C8 as stated: a planting_month that is not one of the 12 month names raises
\* no error: climate_class_from_rainfall, and generate_report after a passing
\* soil-level check, still return a climate class.
C8_UnknownMonthSilent ==
    /\ (/\ pc = "idle"
        /\ call.fn = "climate_class_from_rainfall"
        /\ UnknownMonth(call.args[2]))
       => (IsVal(ret) /\ ret.val \in {sLow, sMedium, sHigh})
    /\ (/\ pc = "idle"
        /\ ReportCall
        /\ UnknownMonth(call.args[2])
        /\ PassesLookups(call.args))
       => (IsVal(ret) /\ frame.climate_class \in {sLow, sMedium, sHigh})

\* C8 amended: a planting_month that is not one of the 12 month names is not
\* checked beforehand, but the month lookup raises ValueError:
\* climate_class_from_rainfall returns no class, and generate_report, after a
\* passing soil-level check and zone lookup, ends with that error at the
\* climate stage, before any risk mapping, and prints nothing.
C8_UnknownMonthRaises ==
    /\ (/\ pc = "idle"
        /\ call.fn = "climate_class_from_rainfall"
        /\ UnknownMonth(call.args[2]))
       => ret = Exc("ValueError")
    /\ (/\ pc = "idle"
        /\ ReportCall
        /\ UnknownMonth(call.args[2])
        /\ PassesLookups(call.args))
       => /\ ret = Exc("ValueError")
          /\ trace = <<"validate", "zone", "climate">>
          /\ frame.climate_class = <<>>
          /\ frame.drought_risk = <<>>
          /\ out = <<>>

C8_Witness ==
    /\ pc = "idle"
    /\ call = [fn |-> "generate_report", args |-> <<"Kaduna", "Smarch", sLow>>]
    /\ frame.agro_zone = NGS
    /\ trace = <<"validate", "zone", "climate">>
    /\ ret = Exc("ValueError")

\* C9: in every generate_report call the soil-level validation is the first
\* step; when it fails the call ends with the error before the zone lookup,
\* the classification, any risk mapping, any recommendation, the selection and
\* any output; when it passes, the stages run in the order climate classifier,
\* drought/soil/pest risk mappers, recommendation generators, variety selector,
\* the selector receives the drought and soil risk derived in that call, and
\* output begins only after the selection has finished.
C9_ReportStageOrder ==
    (ReportCall /\ trace # <<>>) =>
        /\ trace[1] = "validate"
        /\ \A k, l \in 1..Len(trace) : trace[k] = trace[l] => k = l
        /\ ~LevelOffered(soil_df, call.args[1], call.args[3]) =>
              /\ pc = "idle"
              /\ ret = Exc("ValueError")
              /\ trace = <<"validate">>
              /\ frame = EmptyFrame
              /\ out = <<>>
        /\ LevelOffered(soil_df, call.args[1], call.args[3]) =>
              (pc = "idle" => (Len(trace) > 1 /\ trace[2] = "zone"))
        /\ \A a \in {"validate", "zone"} : Precedes(a, "climate")
        /\ \A b \in {"drought", "soil", "pest"} : Precedes("climate", b)
        /\ Precedes("drought", "pest") /\ Precedes("soil", "pest")
        /\ \A a \in {"drought", "soil", "pest"} :
              \A b \in {"pest_note", "fertilizer"} : Precedes(a, b)
        /\ \A a \in {"pest_note", "fertilizer"} : Precedes(a, "varieties")
        /\ Precedes("varieties", "output")
        /\ Ran("varieties") =>
              /\ frame.drought_risk = drought_risk_from_climate(frame.climate_class)[1]
              /\ frame.climate_class \in {sLow, sMedium, sHigh}
              /\ frame.soil_risk = soil_fertility_risk(call.args[3])
              /\ frame.sel_args = <<frame.agro_zone, frame.drought_risk, frame.soil_risk>>
        /\ out # <<>> => (Ran("varieties") /\ Ran("output"))
        /\ (pc = "idle" /\ IsVal(ret)) => (Len(trace) = 10 /\ out # <<>>)

\* the end-to-end scenario of the fixture: Kaduna, July, Low
C9_Witness ==
    /\ pc = "idle"
    /\ call = [fn |-> "generate_report", args |-> <<"Kaduna", "July", sLow>>]
    /\ maize_df = FixtureMaize
    /\ frame.climate_class = sMedium
    /\ frame.sel_args = <<NGS, sMedium, sHigh>>
    /\ frame.varieties = <<3, 1>>
    /\ Len(trace) = 10
    /\ out # <<>>
    /\ ret = Val("None")

\* finished calls with the same arguments had the same outcome
HistoryFree ==
    /\ \A p, q \in seen.report : p.args = q.args => p = q
    /\ \A p, q \in seen.validate : p.args = q.args => p = q
    /\ \A p, q \in seen.select : p.args = q.args => p = q
    /\ \A p, q \in seen.classify : p.args = q.args => p = q

\* C10: across any sequence of generate_report, validate_soil_level and
\* recommend_varieties calls on one MaizeAdvisorySystem, failing calls
\* included, the four reference tables and the month order are left unchanged,
\* and the outcome of each call (its report or its error) depends only on its
\* arguments and the tables, never on the calls made before it.
C10_TablesReadOnlyHistoryFree ==
    /\ [][tables' = tables]_vars
    /\ []HistoryFree

\* the same report asked for twice, after which one outcome is on record
C10_Witness ==
    /\ pc = "idle"
    /\ ncalls = 2
    /\ call = [fn |-> "generate_report", args |-> <<"Kaduna", "July", sVeryHigh>>]
    /\ ret = Exc("ValueError")
    /\ seen = [EmptySeen EXCEPT !.report =
                  {[args |-> call.args, ret |-> ret, out |-> <<>>]}]

=============================================================================
